---- MODULE Spec2Model ----
(***************************************************************************)
(* Presence registry and socket-first delivery pipeline of                 *)
(* src/src/socket/socketHandler.ts (initializeSocket).                     *)
(*                                                                         *)
(* Node runs every handler, and every continuation after an `await`, as    *)
(* one non-preemptible step; the only suspension points are the prisma     *)
(* calls and setImmediate.  Callbacks handed to process.nextTick run       *)
(* before the event loop takes the next I/O event and read nothing that a  *)
(* promise continuation could change in between, so they belong to the     *)
(* step that scheduled them.                                               *)
(***************************************************************************)
EXTENDS Integers, Sequences, FiniteSets, TLC

\* ------------------------------------------------------------------ bounds
MaxSockets == 2     \* connections the transport layer ever opens
MaxSends == 2       \* 'send-message' events received
MaxEvents == 5      \* events the clients and the transport layer raise
MaxPending == 1     \* 'user-online' handlers awaiting their lookup at once

\* ------------------------------------------------------- program constants
MaxContentLen == 1000   \* sendMessageSchema: content .max(1000)
NoSocket == 0           \* Map.get of an absent key: undefined

\* --------------------------------------------------------------- the store
\* The users table: id is the primary key, clerkId the external identity.
DbUsers == { [id |-> "d1", clerkId |-> "u1"], [id |-> "d2", clerkId |-> "u2"] }
NoRecord == [id |-> "", clerkId |-> ""]          \* findUnique: null
NoUser == ""                                      \* falsy userId / undefined

ClerkIds == { r.clerkId : r \in DbUsers }
Sockets == 1..MaxSockets
Msgs == 1..MaxSends

\* prisma.user.findUnique({ where: { clerkId } })
FindByClerkId(c) ==
    IF \E r \in DbUsers : r.clerkId = c
    THEN CHOOSE r \in DbUsers : r.clerkId = c
    ELSE NoRecord

\* prisma.user.findUnique({ where: { id } })
FindById(i) ==
    IF \E r \in DbUsers : r.id = i
    THEN CHOOSE r \in DbUsers : r.id = i
    ELSE NoRecord

\* ----------------------------------------------------------------- inputs
IdentifyIds == ClerkIds \cup {"ux", NoUser}       \* payload of 'user-online'
\* payloads of 'send-message' (SendMessageData): a known receiver, an
\* unknown one, and a content of blanks; a content is its characters
Payloads ==
    { [receiverId |-> "d1", content |-> <<"h">>],
      [receiverId |-> "d2", content |-> <<"h">>],
      [receiverId |-> "dx", content |-> <<"h">>],
      [receiverId |-> "d2", content |-> <<" ">>] }

\* the events of the signal relay, and their payloads: a target with a
\* record, one without, and a missing toUserId or fromUserId
SignalEvents == {"typing", "stop-typing"}
SignalData ==
    { [toUserId |-> "u2", fromUserId |-> "u1"],
      [toUserId |-> "ux", fromUserId |-> "u1"],
      [toUserId |-> NoUser, fromUserId |-> "u1"],
      [toUserId |-> "u1", fromUserId |-> NoUser] }

\* String.prototype.trim, on a content given as its characters
RECURSIVE TrimLeft(_)
TrimLeft(c) == IF c # <<>> /\ Head(c) = " " THEN TrimLeft(Tail(c)) ELSE c
RECURSIVE TrimRight(_)
TrimRight(c) ==
    IF c # <<>> /\ c[Len(c)] = " " THEN TrimRight(SubSeq(c, 1, Len(c) - 1)) ELSE c
Trim(c) == TrimRight(TrimLeft(c))

VARIABLES
    sockState,            \* io.sockets.sockets: "new" | "open" | "closed"
    userSockets,          \* Map userId -> socket.id
    socketUsers,          \* Map socket.id -> userId
    offlineMessageQueue,  \* Map userId -> any[]  ([has, msgs])
    idPending,            \* 'user-online' handlers awaiting syncUserFromClerk
    msgs,                 \* 'send-message' handlers: position, locals, and
                          \* hist, the emits made for the message so far
    immediates,           \* callbacks handed to setImmediate, oldest first
    dbMessages,           \* rows of the messages table (the id of a row is
                          \* the number of the send it was created for)
    nEvents,              \* events received from the clients so far
    emits,                \* what the last step emitted, in order
    last                  \* locals of the last registry step (identify,
                          \* disconnect, sweep) or the signal last relayed

vars == << sockState, userSockets, socketUsers, offlineMessageQueue, idPending,
           msgs, immediates, dbMessages, nEvents, emits, last >>

Open == { s \in Sockets : sockState[s] = "open" }

\* ------------------------------------------------------------------ emits
Ev(ev, dst, to, user, count, m, kind) ==
    [ev |-> ev, dst |-> dst, to |-> to, user |-> user, count |-> count,
     m |-> m, kind |-> kind]

\* socket.emit(ev, ..) and io.to(socketId).emit(ev, ..): the room of a socket
\* id holds that socket while it is connected, and nothing afterwards.
ToSocket(ev, s, user, count, m, kind) ==
    Ev(ev, s, {s} \cap Open, user, count, m, kind)
\* socket.broadcast.emit(ev, ..): every connected socket but this one
Broadcast(open, ev, s, user) ==
    Ev(ev, NoSocket, open \ {s}, user, -1, 0, "")
\* io.emit('online-users-count', { count })
CountAll(open, count) ==
    Ev("online-users-count", NoSocket, open, NoUser, count, 0, "")

Size(map, none) == Cardinality({ k \in DOMAIN map : map[k] # none })

\* the emits of es that are about message m
About(es, m) == SelectSeq(es, LAMBDA e : e.m = m)

Step(op, s, user, existing, removed) ==
    [op |-> op, sock |-> s, user |-> user, existing |-> existing,
     removed |-> removed]

\* a step none of whose locals is recorded
Idle == Step("", NoSocket, NoUser, NoSocket, {})

IdleMsg == [pc |-> "idle", sock |-> NoSocket, senderId |-> NoUser,
            receiverId |-> "", content |-> <<>>, rsid |-> NoSocket,
            hist |-> <<>>]

\* the state initializeSocket leaves, with n client events already counted
InitAfter(n) ==
    /\ sockState = [s \in Sockets |-> "new"]
    /\ userSockets = [u \in ClerkIds |-> NoSocket]
    /\ socketUsers = [s \in Sockets |-> NoUser]
    /\ offlineMessageQueue = [u \in ClerkIds |-> [has |-> FALSE, msgs |-> <<>>]]
    /\ idPending = [s \in Sockets |-> "-"]
    /\ msgs = [m \in Msgs |-> IdleMsg]
    /\ immediates = <<>>
    /\ dbMessages = {}
    /\ nEvents = n
    /\ emits = <<>>
    /\ last = Idle

Init == InitAfter(0)

\* a step that emits es and leaves the handlers at ms
Out(ms, es) ==
    /\ emits' = es
    /\ msgs' = [m \in Msgs |-> [ms[m] EXCEPT !.hist = @ \o About(es, m)]]

\* io.on('connection'): socket ids are fresh, never reused
Connect(s) ==
    /\ sockState[s] = "new"
    /\ \A r \in Sockets : r < s => sockState[r] # "new"
    /\ nEvents < MaxEvents
    /\ nEvents' = nEvents + 1
    /\ sockState' = [sockState EXCEPT ![s] = "open"]
    /\ Out(msgs, <<>>)
    /\ last' = Idle
    /\ UNCHANGED << userSockets, socketUsers, offlineMessageQueue, idPending,
                    immediates, dbMessages >>


\* syncUserFromClerk: the record, or null when absent or when the lookup throws
SyncUserFromClerk(clerkId, dbOk) ==
    IF dbOk THEN FindByClerkId(clerkId) ELSE NoRecord

\* variant of EvictExisting: the comparison of line 66 inverted, so that the
\* entry of another socket is never deleted
EvictSelfOnly(su, existingSocketId, s) ==
    IF existingSocketId # NoSocket /\ existingSocketId = s
    THEN [su EXCEPT ![existingSocketId] = NoUser]
    ELSE su

\* variant of EvictExisting: the reconnection path that forgets the eviction
EvictNothing(su, existingSocketId, s) == su

\* lines 65-68: drop the reverse entry of the connection userId was on
EvictExisting(su, existingSocketId, s) ==
    IF existingSocketId # NoSocket /\ existingSocketId # s
    THEN [su EXCEPT ![existingSocketId] = NoUser]
    ELSE su

\* lines 119-129, 155: the sender of pendingMessage, the row found for the
\* senderId read at reception; an event names it by its clerkId
PendingSender(m) == FindByClerkId(msgs[m].senderId).clerkId

\* lines 185-193: the sender included in savedMessage, the user row of the
\* senderId that the created row holds
SavedSender(m) ==
    IF \E r \in dbMessages : r.id = m
    THEN FindById((CHOOSE r \in dbMessages : r.id = m).senderId).clerkId
    ELSE NoUser

\* variant of DrainEmits: the queue deleted without the forEach that emits
DrainEmitsNothing(q, s) == <<>>

\* lines 87-92: what the identifying socket is sent from the queue
DrainEmits(q, s) ==
    IF q.has /\ Len(q.msgs) > 0
    THEN [i \in 1..Len(q.msgs) |->
            ToSocket("new-message", s, SavedSender(q.msgs[i]), -1, q.msgs[i],
                     "saved")]
    ELSE <<>>

\* variant of DrainQueue: the drain that forgets offlineMessageQueue.delete
DrainKeeping(q) == q

\* lines 88-90: the queue afterwards (deleted only when it held something)
DrainQueue(q) ==
    IF q.has /\ Len(q.msgs) > 0 THEN [has |-> FALSE, msgs |-> <<>>] ELSE q

\* variant of OnlineEmits: the presence sent with io.emit, the identifying
\* socket included
OnlineEmitsToAll(s, userId, count) ==
    << Ev("user-online-status", NoSocket, Open, userId, -1, 0, ""),
       CountAll(Open, count),
       ToSocket("connection-confirmed", s, userId, count, 0, "") >>

\* lines 73-85: presence broadcast, count, confirmation, in this order
OnlineEmits(s, userId, count) ==
    << Broadcast(Open, "user-online-status", s, userId),
       CountAll(Open, count),
       ToSocket("connection-confirmed", s, userId, count, 0, "") >>

\* socket.on('user-online'), up to the await of syncUserFromClerk
UserOnline(s, userId) ==
    /\ sockState[s] = "open"
    /\ idPending[s] = "-"
    /\ userId # NoUser =>
            Cardinality({ r \in Sockets : idPending[r] # "-" }) < MaxPending
    /\ nEvents < MaxEvents
    /\ nEvents' = nEvents + 1
    /\ IF userId = NoUser
       THEN /\ Out(msgs, << ToSocket("error", s, NoUser, -1, 0, "") >>)
            /\ UNCHANGED idPending
       ELSE /\ idPending' = [idPending EXCEPT ![s] = userId]
            /\ Out(msgs, <<>>)
    /\ last' = Idle
    /\ UNCHANGED << sockState, userSockets, socketUsers, offlineMessageQueue,
                    immediates, dbMessages >>

\* variant of SyncRequired: the refusal followed by the count broadcast
SyncRequiredThenCount(s) ==
    << ToSocket("sync-required", s, NoUser, -1, 0, ""),
       CountAll(Open, Size(userSockets, NoSocket)) >>

\* lines 59-63: what a socket whose userId has no record is sent
SyncRequired(s) == << ToSocket("sync-required", s, NoUser, -1, 0, "") >>

\* socket.on('user-online'), from the return of syncUserFromClerk on; the
\* socket may have disconnected while the lookup was in flight
UserOnlineResume(s) ==
    /\ idPending[s] # "-"
    /\ idPending' = [idPending EXCEPT ![s] = "-"]
    /\ \E dbOk \in BOOLEAN :
        LET userId == idPending[s]
            user == SyncUserFromClerk(userId, dbOk)
            existingSocketId == userSockets[userId]
            us == [userSockets EXCEPT ![userId] = s]
            su == [EvictExisting(socketUsers, existingSocketId, s)
                       EXCEPT ![s] = userId]
            q == offlineMessageQueue[userId]
        IN  IF user = NoRecord
            THEN /\ Out(msgs, SyncRequired(s))
                 /\ last' = Idle
                 /\ UNCHANGED << userSockets, socketUsers, offlineMessageQueue >>
            ELSE /\ userSockets' = us
                 /\ socketUsers' = su
                 /\ offlineMessageQueue' =
                        [offlineMessageQueue EXCEPT ![userId] = DrainQueue(q)]
                 /\ Out(msgs, OnlineEmits(s, userId, Size(us, NoSocket))
                                \o DrainEmits(q, s))
                 /\ last' = Step("online", s, userId, existingSocketId, {})
    /\ UNCHANGED << immediates, sockState, dbMessages, nEvents >>

\* variant of RemoveEntry: only userSockets.delete, the reverse entry left
RemoveForwardOnly(us, su, s, userId) ==
    [us |-> [us EXCEPT ![userId] = NoSocket], su |-> su]

\* variant of RemoveEntry: only socketUsers.delete, the forward entry left
RemoveReverseOnly(us, su, s, userId) ==
    [us |-> us, su |-> [su EXCEPT ![s] = NoUser]]

\* lines 288-292: both directions of the entry of this connection
RemoveEntry(us, su, s, userId) ==
    [us |-> [us EXCEPT ![userId] = NoSocket], su |-> [su EXCEPT ![s] = NoUser]]

\* lines 294-297: offline broadcast, then the count read after the removal
OfflineEmits(open, s, userId, usAfter) ==
    << Broadcast(open, "user-offline-status", s, userId),
       CountAll(open, Size(usAfter, NoSocket)) >>

\* socket.on('disconnect'): socket.io takes the socket out of
\* io.sockets.sockets, then runs the handler
Disconnect(s) ==
    /\ sockState[s] = "open"
    /\ nEvents < MaxEvents
    /\ nEvents' = nEvents + 1
    /\ sockState' = [sockState EXCEPT ![s] = "closed"]
    /\ LET userId == socketUsers[s]
           r == RemoveEntry(userSockets, socketUsers, s, userId)
       IN  IF userId # NoUser
           THEN /\ userSockets' = r.us
                /\ socketUsers' = r.su
                /\ Out(msgs, OfflineEmits(Open \ {s}, s, userId, r.us))
                /\ last' = Step("disconnect", s, userId, NoSocket, {})
           ELSE /\ Out(msgs, <<>>)
                /\ last' = Idle
                /\ UNCHANGED << userSockets, socketUsers >>
    /\ UNCHANGED << immediates, offlineMessageQueue, idPending, dbMessages >>

\* variant of Stale: the sweep that does not consult the connected set
StaleAll(su, connectedSockets) ==
    { sid \in DOMAIN su : su[sid] # NoUser }

\* lines 318-324: the entries of socketUsers whose socket is not connected
Stale(su, connectedSockets) ==
    { sid \in DOMAIN su : su[sid] # NoUser /\ sid \notin connectedSockets }

\* lines 326-329: what a sweep that removed something emits
ReaperEmits(removed, usAfter) ==
    IF removed # {} THEN << CountAll(Open, Size(usAfter, NoSocket)) >> ELSE <<>>

\* setInterval(.., 30000): cleanup of stale connections
ReaperTick ==
    LET stale == Stale(socketUsers, Open)
        gone == { socketUsers[sid] : sid \in stale }
        us == [u \in ClerkIds |-> IF u \in gone THEN NoSocket ELSE userSockets[u]]
        su == [sid \in Sockets |-> IF sid \in stale THEN NoUser ELSE socketUsers[sid]]
    IN  /\ stale # {}    \* a sweep that finds nothing changes nothing
        /\ userSockets' = us
        /\ socketUsers' = su
        /\ Out(msgs, ReaperEmits(stale, us))
        /\ last' = Step("reaper", NoSocket, NoUser, NoSocket, gone)
        /\ UNCHANGED << immediates, sockState, offlineMessageQueue, idPending,
                        dbMessages, nEvents >>

\* ---------------------------------------------------------- signal relay
\* userSockets.get(userId)
GetSocket(us, userId) == IF userId \in DOMAIN us THEN us[userId] ELSE NoSocket

\* the event a signal is forwarded as
Forwarded(ev) == IF ev = "typing" THEN "user-typing" ELSE "user-stop-typing"

\* socket.to(targetSocketId).emit(ev, ..): the room of the target socket,
\* the emitting socket excepted
SocketTo(ev, s, targetSocketId, fromUserId) ==
    Ev(ev, targetSocketId, ({targetSocketId} \cap Open) \ {s}, fromUserId, -1, 0, "")

\* variant of Relay: the handler without the check of the two identifiers
RelayUnchecked(s, ev, data) ==
    LET targetSocketId == GetSocket(userSockets, data.toUserId)
    IN  IF targetSocketId # NoSocket
        THEN << SocketTo(Forwarded(ev), s, targetSocketId, data.fromUserId) >>
        ELSE <<>>

\* variant of Relay: the signal sent with socket.broadcast.emit
RelayToOthers(s, ev, data) ==
    IF data.toUserId = NoUser \/ data.fromUserId = NoUser THEN <<>>
    ELSE LET targetSocketId == GetSocket(userSockets, data.toUserId)
         IN  IF targetSocketId # NoSocket
             THEN << Ev(Forwarded(ev), targetSocketId, Open \ {s},
                        data.fromUserId, -1, 0, "") >>
             ELSE <<>>

\* lines 263-273 and 276-284: what 'typing' and 'stop-typing' emit
Relay(s, ev, data) ==
    IF data.toUserId = NoUser \/ data.fromUserId = NoUser THEN <<>>
    ELSE LET targetSocketId == GetSocket(userSockets, data.toUserId)
         IN  IF targetSocketId # NoSocket
             THEN << SocketTo(Forwarded(ev), s, targetSocketId, data.fromUserId) >>
             ELSE <<>>

\* socket.on('typing') and socket.on('stop-typing')
Signal(s, ev, data) ==
    /\ sockState[s] = "open"
    /\ nEvents < MaxEvents
    /\ nEvents' = nEvents + 1
    /\ Out(msgs, Relay(s, ev, data))
    /\ last' = [op |-> ev, sock |-> s, toUserId |-> data.toUserId,
                 fromUserId |-> data.fromUserId]
    /\ UNCHANGED << sockState, userSockets, socketUsers, offlineMessageQueue,
                    idPending, immediates, dbMessages >>

\* ------------------------------------------------------ delivery pipeline
Sent == { m \in Msgs : msgs[m].pc # "idle" }

\* variant of NotAuthenticated: the refusal announced with io.emit
NotAuthenticatedToAll(s, m) ==
    << Ev("message-error", NoSocket, Open, NoUser, -1, m, "Not authenticated") >>

\* lines 107-113: a connection with no registered identity
NotAuthenticated(s, m) ==
    << ToSocket("message-error", s, NoUser, -1, m, "Not authenticated") >>

\* socket.on('send-message'), up to the await of the two findUnique calls
SendMessage(s, data) ==
    /\ sockState[s] = "open"
    /\ Cardinality(Sent) < MaxSends
    /\ nEvents < MaxEvents
    /\ nEvents' = nEvents + 1
    /\ LET m == Cardinality(Sent) + 1
           senderId == socketUsers[s]
           d == [IdleMsg EXCEPT !.sock = s, !.senderId = senderId,
                                !.receiverId = data.receiverId,
                                !.content = data.content]
       IN  /\ IF senderId = NoUser
              THEN Out([msgs EXCEPT ![m] = [d EXCEPT !.pc = "done"]],
                       NotAuthenticated(s, m))
              ELSE Out([msgs EXCEPT ![m] = [d EXCEPT !.pc = "lookup"]], <<>>)
           /\ last' = Idle
    /\ UNCHANGED << sockState, userSockets, socketUsers, offlineMessageQueue,
                    idPending, immediates, dbMessages >>

\* variant of LookupFailed: a bare return, the sender told nothing
LookupFailedSilently(s, m, reason) == <<>>

\* variant of LookupFailed: the error sent with io.emit, to every socket
LookupFailedToAll(s, m, reason) ==
    << Ev("message-error", NoSocket, Open, NoUser, -1, m, reason) >>

\* lines 142-148 and 252-258: what the sender is told when a lookup fails
LookupFailed(s, m, reason) ==
    << ToSocket("message-error", s, NoUser, -1, m, reason) >>

\* variant of LiveDelivery: step 3 without the emit, the receiver hearing of
\* the message from the confirmation alone
LiveDeliverySkipped(receiverSocketId, m) == <<>>

\* lines 161-166: the optimistic emit to the receiver's registered socket
LiveDelivery(receiverSocketId, m) ==
    IF receiverSocketId # NoSocket
    THEN << ToSocket("new-message", receiverSocketId, PendingSender(m), -1, m,
                     "sending") >>
    ELSE <<>>

\* lines 167-172: an empty queue is created for a receiver with no socket
PrepareQueue(q, receiverSocketId) ==
    IF receiverSocketId = NoSocket /\ ~q.has
    THEN [has |-> TRUE, msgs |-> <<>>]
    ELSE q

\* socket.on('send-message'), from the return of Promise.all to setImmediate
LookupReturn(m) ==
    /\ msgs[m].pc = "lookup"
    /\ \E dbOk \in BOOLEAN :
        LET d == msgs[m]
            sender == FindByClerkId(d.senderId)
            receiver == FindById(d.receiverId)
            receiverSocketId == userSockets[receiver.clerkId]
        IN  IF ~dbOk
            THEN /\ Out([msgs EXCEPT ![m].pc = "done"],
                        LookupFailed(d.sock, m, "Failed to send message"))
                 /\ UNCHANGED << offlineMessageQueue, immediates >>
            ELSE IF sender = NoRecord \/ receiver = NoRecord
            THEN /\ Out([msgs EXCEPT ![m].pc = "done"],
                        LookupFailed(d.sock, m, "User not found"))
                 /\ UNCHANGED << offlineMessageQueue, immediates >>
            ELSE /\ Out([msgs EXCEPT ![m].pc = "deferred",
                                     ![m].rsid = receiverSocketId],
                        LiveDelivery(receiverSocketId, m))
                 /\ immediates' = Append(immediates, m)
                 /\ offlineMessageQueue' =
                        [offlineMessageQueue EXCEPT ![receiver.clerkId] =
                            PrepareQueue(@, receiverSocketId)]
    /\ last' = Idle
    /\ UNCHANGED << sockState, userSockets, socketUsers, idPending, dbMessages,
                    nEvents >>

\* the setImmediate callback, up to the await of prisma.message.create;
\* the event loop runs these callbacks in the order they were scheduled
PersistStart(m) ==
    /\ immediates # <<>>
    /\ m = Head(immediates)
    /\ immediates' = Tail(immediates)
    /\ Out([msgs EXCEPT ![m].pc = "persist"], <<>>)
    /\ last' = Idle
    /\ UNCHANGED << sockState, userSockets, socketUsers, offlineMessageQueue,
                    idPending, dbMessages, nEvents >>

\* lines 211-226: the confirmations, to the sender and to the socket that
\* was read at step 3
ConfirmEmits(s, receiverSocketId, m) ==
    << ToSocket("message-confirmed", s, NoUser, -1, m, "saved") >>
    \o IF receiverSocketId # NoSocket
       THEN << ToSocket("message-confirmed", receiverSocketId, NoUser, -1, m, "saved") >>
       ELSE <<>>

\* lines 227-232: the saved message goes to the tail of the queue when no
\* socket was read at step 3
Enqueue(q, receiverSocketId, m) ==
    IF receiverSocketId = NoSocket
    THEN [has |-> TRUE, msgs |-> Append(q.msgs, m)]
    ELSE q

\* variant of QueueOnFailure: the catch that queues the message for a
\* receiver with no socket, as the success path does
RequeueOnFailure(q, receiverSocketId, m) ==
    IF receiverSocketId = NoSocket
    THEN [has |-> TRUE, msgs |-> Append(q.msgs, m)]
    ELSE q

\* lines 234-249: the catch pushes nothing onto the receiver's queue
QueueOnFailure(q, receiverSocketId, m) == q

\* variant of FailedEmits: the failure announced with io.emit
FailedToAll(s, receiverSocketId, m) ==
    << Ev("message-failed", NoSocket, Open, NoUser, -1, m, "Failed to save message") >>

\* variant of FailedEmits: the catch that notifies the sender alone
FailedToSenderOnly(s, receiverSocketId, m) ==
    << ToSocket("message-failed", s, NoUser, -1, m, "Failed to save message") >>

\* lines 234-249: the failure events
FailedEmits(s, receiverSocketId, m) ==
    << ToSocket("message-failed", s, NoUser, -1, m, "Failed to save message") >>
    \o IF receiverSocketId # NoSocket
       THEN << ToSocket("message-failed", receiverSocketId, NoUser, -1, m, "") >>
       ELSE <<>>

\* variant of CreateMessage: the row written with the content trimmed, as
\* sendMessageSchema would have made it
CreateTrimmed(m, content, sender, receiver) ==
    [id |-> m, content |-> Trim(content), senderId |-> sender.id,
     receiverId |-> receiver.id]

\* variant of CreateMessage: the create that reads the sender from the
\* registry as it is when the callback runs
CreateAsCurrent(m, content, sender, receiver) ==
    [id |-> m, content |-> content,
     senderId |-> FindByClerkId(socketUsers[msgs[m].sock]).id,
     receiverId |-> receiver.id]

\* lines 178-204: the row prisma.message.create writes and returns
CreateMessage(m, content, sender, receiver) ==
    [id |-> m, content |-> content, senderId |-> sender.id,
     receiverId |-> receiver.id]

\* the setImmediate callback, from the return of prisma.message.create on
PersistReturn(m) ==
    /\ msgs[m].pc = "persist"
    /\ \E saved \in BOOLEAN :
        LET d == msgs[m]
            sender == FindByClerkId(d.senderId)
            receiver == FindById(d.receiverId)
        IN  IF saved
            THEN /\ dbMessages' = dbMessages \cup
                        { CreateMessage(m, d.content, sender, receiver) }
                 /\ offlineMessageQueue' =
                        [offlineMessageQueue EXCEPT ![receiver.clerkId] =
                            Enqueue(@, d.rsid, m)]
                 /\ Out([msgs EXCEPT ![m].pc = "done"],
                        ConfirmEmits(d.sock, d.rsid, m))
            ELSE /\ Out([msgs EXCEPT ![m].pc = "done"],
                        FailedEmits(d.sock, d.rsid, m))
                 /\ offlineMessageQueue' =
                        [offlineMessageQueue EXCEPT ![receiver.clerkId] =
                            QueueOnFailure(@, d.rsid, m)]
                 /\ UNCHANGED dbMessages
    /\ last' = Idle
    /\ UNCHANGED << sockState, userSockets, socketUsers, idPending, immediates,
                    nEvents >>

\* ---------------------------------------------------------- specification
Next ==
    \/ \E s \in Sockets : Connect(s)
    \/ \E s \in Sockets, userId \in IdentifyIds : UserOnline(s, userId)
    \/ \E s \in Sockets : UserOnlineResume(s)
    \/ \E s \in Sockets : Disconnect(s)
    \/ ReaperTick
    \/ \E s \in Sockets, data \in Payloads : SendMessage(s, data)
    \/ \E m \in Msgs : LookupReturn(m)
    \/ \E m \in Msgs : PersistStart(m)
    \/ \E m \in Msgs : PersistReturn(m)

Spec == Init /\ [][Next]_vars

\* variant of Pong: the answer sent with io.emit
PongToAll(s) == << Ev("pong", NoSocket, Open, NoUser, -1, 0, "") >>

\* lines 304-306: socket.emit('pong', { timestamp })
Pong(s) == << ToSocket("pong", s, NoUser, -1, 0, "") >>

\* socket.on('ping')
Ping(s) ==
    /\ sockState[s] = "open"
    /\ nEvents < MaxEvents
    /\ nEvents' = nEvents + 1
    /\ Out(msgs, Pong(s))
    /\ last' = [op |-> "ping", sock |-> s, toUserId |-> NoUser,
                 fromUserId |-> NoUser]
    /\ UNCHANGED << sockState, userSockets, socketUsers, offlineMessageQueue,
                    idPending, immediates, dbMessages >>

\* The signal relay reads userSockets and writes nothing, and the delivery
\* pipeline writes neither index: the relay is explored with the handlers
\* that write the indexes.
RelayNext ==
    \/ \E s \in Sockets : Connect(s)
    \/ \E s \in Sockets, userId \in IdentifyIds : UserOnline(s, userId)
    \/ \E s \in Sockets : UserOnlineResume(s)
    \/ \E s \in Sockets : Disconnect(s)
    \/ ReaperTick
    \/ \E s \in Sockets, ev \in SignalEvents, data \in SignalData : Signal(s, ev, data)

RelaySpec == Init /\ [][RelayNext]_vars

\* every handler together, the relay and the ping among sends that fill the
\* queues; the behaviours explored hold one client event fewer
FrameNext ==
    \/ Next
    \/ \E s \in Sockets, ev \in SignalEvents, data \in SignalData : Signal(s, ev, data)
    \/ \E s \in Sockets : Ping(s)

FrameSpec == InitAfter(1) /\ [][FrameNext]_vars

\* the collaborators return: every pending lookup and create completes, and
\* the event loop runs every setImmediate callback; the behaviours explored
\* for the temporal properties hold one client event fewer
FairSpec ==
    /\ InitAfter(1)
    /\ [][Next]_vars
    /\ \A m \in Msgs : WF_vars(LookupReturn(m))
    /\ \A m \in Msgs : WF_vars(PersistStart(m))
    /\ \A m \in Msgs : WF_vars(PersistReturn(m))

\* ------------------------------------------------------------ vocabulary
\* the connections through which user u is reachable as u, by either index
RegisteredFor(u) ==
    { s \in Sockets : userSockets[u] = s } \cup { s \in Sockets : socketUsers[s] = u }

\* the positions of hist at which message m was emitted as ev
Emitted(m, ev) == { i \in DOMAIN msgs[m].hist : msgs[m].hist[i].ev = ev }

\* the user a sent message is addressed to ("" when the id is unknown)
ReceiverOf(m) == FindById(msgs[m].receiverId).clerkId

\* the sends whose row is in the messages table
Persisted == { r.id : r \in dbMessages }

InQueue(m) ==
    \E u \in ClerkIds : \E i \in DOMAIN offlineMessageQueue[u].msgs :
        offlineMessageQueue[u].msgs[i] = m

\* ------------------------------------------------------------------ claims

\* C1: for every user, at most one connection is registered as that user's
\* live connection, through the two indexes together; once connection B has
\* identified as u while A was registered for u, u resolves to B and A no
\* longer resolves to u.
C1_OneLiveConnection ==
    /\ \A u \in ClerkIds : Cardinality(RegisteredFor(u)) <= 1
    /\ (last.op = "online" /\ last.existing \notin {NoSocket, last.sock}) =>
            /\ userSockets[last.user] = last.sock
            /\ socketUsers[last.existing] # last.user

\* B has just identified as a user registered on A, and A is still connected
C1_Witness ==
    /\ last.op = "online"
    /\ last.existing \notin {NoSocket, last.sock}
    /\ sockState[last.existing] = "open"
    /\ sockState[last.sock] = "open"

\* C2: 'new-message' is emitted at most once for any message, over the live
\* emit of send-message and every queue drain; a message a drain has emitted
\* is not emitted by the drain of a later identify.
C2_NewMessageAtMostOnce ==
    \A m \in Msgs : Cardinality(Emitted(m, "new-message")) <= 1

\* the receiver of a message that an earlier identify drained has just
\* identified again, and the message is not among what it was sent
C2_Witness ==
    /\ last.op = "online"
    /\ \E m \in Msgs :
        /\ msgs[m].rsid = NoSocket
        /\ ReceiverOf(m) = last.user
        /\ Emitted(m, "new-message") # {}
        /\ About(emits, m) = <<>>

\* C3: messages to an offline receiver lie in its queue in the order their
\* send-message events were received (message ids count the receptions).
C3_QueueInSendOrder ==
    \A u \in ClerkIds :
        LET q == offlineMessageQueue[u].msgs
        IN  \A i, j \in DOMAIN q : i < j => q[i] < q[j]

\* C4: no message waits in the offline queue of a user who is registered as
\* online.
C4_NoQueuedWhileOnline ==
    \A u \in ClerkIds :
        userSockets[u] # NoSocket => offlineMessageQueue[u].msgs = <<>>

\* C5: every 'message-confirmed' or 'message-failed' emitted to the receiver
\* connection of a message comes after a 'new-message' for that message to
\* the same connection.
C5_NewMessageFirst ==
    \A m \in Msgs :
        LET h == msgs[m].hist
        IN  \A j \in DOMAIN h :
                (/\ h[j].ev \in {"message-confirmed", "message-failed"}
                 /\ h[j].dst = msgs[m].rsid)
                => \E i \in 1..(j - 1) :
                        /\ h[i].ev = "new-message"
                        /\ h[i].dst = h[j].dst

\* a live receiver on another connection than the sender's has been sent
\* the confirmation of a message
C5_Witness ==
    \E m \in Msgs : \E j \in DOMAIN msgs[m].hist :
        /\ msgs[m].rsid \notin {NoSocket, msgs[m].sock}
        /\ msgs[m].hist[j].ev = "message-confirmed"
        /\ msgs[m].hist[j].dst = msgs[m].rsid
        /\ msgs[m].hist[j].to # {}

\* the sender connection of m has been emitted a terminal event for m
Answered(m) ==
    \E i \in DOMAIN msgs[m].hist :
        /\ msgs[m].hist[i].ev \in {"message-confirmed", "message-failed", "message-error"}
        /\ msgs[m].hist[i].dst = msgs[m].sock
        /\ msgs[m].hist[i].m = m

\* C6: when the lookups and the create return, every send-message received
\* is eventually answered to its sender connection with 'message-confirmed',
\* 'message-failed' or 'message-error' for that message.
C6_SenderAnswered ==
    \A m \in Msgs : (msgs[m].pc # "idle") ~> Answered(m)

\* one message has been refused for an unknown receiver, or for a missing
\* identity, and another has gone through the whole pipeline
C6_Witness ==
    \E m, n \in Msgs :
        /\ Emitted(m, "message-error") # {}
        /\ Emitted(n, "message-confirmed") \cup Emitted(n, "message-failed") # {}
        /\ Answered(m) /\ Answered(n)

\* the resolved sender and receiver of m are the same user
SelfSend(m) ==
    /\ msgs[m].pc # "idle"
    /\ msgs[m].senderId # NoUser
    /\ FindByClerkId(msgs[m].senderId).id = msgs[m].receiverId

\* C7: a send-message from a user to themselves emits no 'new-message',
\* enqueues nothing and never reaches the create call.
C7_SelfSendRejected ==
    \A m \in Msgs : SelfSend(m) =>
        /\ Emitted(m, "new-message") = {}
        /\ ~InQueue(m)
        /\ msgs[m].pc # "persist"
        /\ m \notin Persisted

\* the content of m is empty once trimmed, or longer than the limit
BadContent(m) ==
    /\ msgs[m].pc # "idle"
    /\ Trim(msgs[m].content) = <<>> \/ Len(msgs[m].content) > MaxContentLen

\* C8: a send-message whose content is empty once trimmed, or too long, is
\* refused before any lookup: its handler never awaits a lookup, nothing is
\* emitted for it but the error, nothing is enqueued, nothing persisted.
C8_BadContentRejected ==
    \A m \in Msgs : BadContent(m) =>
        /\ msgs[m].pc = "done"
        /\ \A i \in DOMAIN msgs[m].hist : msgs[m].hist[i].ev = "message-error"
        /\ ~InQueue(m)
        /\ m \notin Persisted

\* C9: the disconnect of a connection registered for u removes u -> s and
\* s -> u and emits exactly 'user-offline-status' for u and then
\* 'online-users-count' with the number of users that have a userId -> socket
\* entry after the removal; the disconnect of a connection with no
\* registered identity changes no index and no queue and emits nothing.
C9_DisconnectCleanup ==
    [][ \A s \in Sockets :
            (sockState[s] = "open" /\ sockState'[s] = "closed") =>
                IF socketUsers[s] # NoUser
                THEN /\ userSockets'[socketUsers[s]] = NoSocket
                     /\ socketUsers'[s] = NoUser
                     /\ Len(emits') = 2
                     /\ emits'[1].ev = "user-offline-status"
                     /\ emits'[1].user = socketUsers[s]
                     /\ emits'[1].to = Open \ {s}
                     /\ emits'[2].ev = "online-users-count"
                     /\ emits'[2].to = Open \ {s}
                     /\ emits'[2].count =
                            Cardinality({ u \in ClerkIds : userSockets'[u] # NoSocket })
                ELSE /\ emits' = <<>>
                     /\ UNCHANGED << userSockets, socketUsers, offlineMessageQueue >>
      ]_vars

\* a registered connection has just disconnected while another connection
\* was there to hear of it and another user stays registered
C9_Witness ==
    /\ last.op = "disconnect"
    /\ Len(emits) = 2
    /\ emits[1].to # {}
    /\ emits[2].count = 1

\* C10: a sweep that evicts entries emits exactly one 'user-offline-status'
\* for every evicted user, and 'online-users-count' with the updated count,
\* and leaves neither direction of an evicted entry.
C10_ReaperCleanup ==
    last.op = "reaper" =>
        /\ \A u \in last.removed :
            /\ userSockets[u] = NoSocket
            /\ Cardinality({ i \in DOMAIN emits :
                    emits[i].ev = "user-offline-status" /\ emits[i].user = u }) = 1
        /\ \E i \in DOMAIN emits :
            /\ emits[i].ev = "online-users-count"
            /\ emits[i].count = Cardinality({ u \in ClerkIds : userSockets[u] # NoSocket })

\* C11: right after a sweep that evicted something, no entry of either index
\* names a connection that is not connected: every userId -> socket entry and
\* every socket -> userId entry is the entry of a connected socket.
C11_NoDeadEntryAfterSweep ==
    last.op = "reaper" =>
        /\ \A u \in ClerkIds : userSockets[u] # NoSocket => userSockets[u] \in Open
        /\ \A s \in Sockets : socketUsers[s] # NoUser => s \in Open

\* the create of send m returns a row in this step
Saves(m) == m \notin Persisted /\ m \in Persisted'

\* the 'user-online' of socket s completes and registers it in this step
Identifies(s) == idPending[s] # "-" /\ idPending'[s] = "-" /\ last'.op = "online"

\* C12: a message sent to a receiver with no registered socket, whose create
\* returns a row while the receiver still has none: the sender's socket, if
\* connected, is emitted 'message-confirmed' for that send in the same step,
\* the row holds the content that was sent, and the receiver's queue is the
\* queue of before with that message appended (the message alone, when it is
\* the only one sent); and the next identify of a user emits 'new-message'
\* with the saved row for each message of the user's queue, once, to the
\* identifying socket, and leaves the queue empty.
C12_OfflineSendDelivered ==
    [][ /\ \A m \in Msgs :
            (/\ Saves(m)
             /\ msgs[m].rsid = NoSocket
             /\ userSockets[ReceiverOf(m)] = NoSocket) =>
                /\ sockState[msgs[m].sock] = "open" =>
                      \E i \in DOMAIN emits' :
                          /\ emits'[i].ev = "message-confirmed"
                          /\ emits'[i].m = m
                          /\ emits'[i].to = {msgs[m].sock}
                /\ \E r \in dbMessages' : r.id = m /\ r.content = msgs[m].content
                /\ offlineMessageQueue'[ReceiverOf(m)].msgs =
                      Append(offlineMessageQueue[ReceiverOf(m)].msgs, m)
                /\ Sent = {m} => offlineMessageQueue'[ReceiverOf(m)].msgs = << m >>
        /\ \A s \in Sockets : Identifies(s) =>
                LET q == offlineMessageQueue[idPending[s]].msgs
                IN  /\ offlineMessageQueue'[idPending[s]].msgs = <<>>
                    /\ \A k \in DOMAIN q :
                          Cardinality({ i \in DOMAIN emits' :
                              /\ emits'[i].ev = "new-message"
                              /\ emits'[i].m = q[k]
                              /\ emits'[i].kind = "saved"
                              /\ emits'[i].dst = s }) = 1
      ]_vars

\* the receiver of a saved message that was queued has just identified on a
\* connected socket of its own, been sent the message, and its queue is
\* empty; the sender was connected to hear the confirmation
C12_Witness ==
    /\ last.op = "online"
    /\ sockState[last.sock] = "open"
    /\ offlineMessageQueue[last.user].msgs = <<>>
    /\ \E m \in Msgs :
        /\ m \in Persisted
        /\ msgs[m].rsid = NoSocket
        /\ ReceiverOf(m) = last.user
        /\ msgs[m].sock # last.sock
        /\ \E i \in DOMAIN msgs[m].hist :
            /\ msgs[m].hist[i].ev = "message-confirmed"
            /\ msgs[m].hist[i].to = {msgs[m].sock}
        /\ \E i \in DOMAIN emits :
            /\ emits[i].ev = "new-message"
            /\ emits[i].m = m
            /\ emits[i].to = {last.sock}

\* the create of send m throws in this step
FailsToSave(m) ==
    msgs[m].pc = "persist" /\ msgs'[m].pc = "done" /\ m \notin Persisted'

\* the socket read at step 3 of send m was emitted the optimistic
\* 'new-message' while it was connected
DeliveredLive(m) ==
    /\ msgs[m].rsid # NoSocket
    /\ \E i \in DOMAIN msgs[m].hist :
        /\ msgs[m].hist[i].ev = "new-message"
        /\ msgs[m].hist[i].kind = "sending"
        /\ msgs[m].hist[i].to = {msgs[m].rsid}

\* C13: when the create of a send throws, the receiver's socket having
\* received the optimistic 'new-message', and the sender's socket and that
\* socket both still connected, 'message-failed' for that send is emitted to
\* the sender's socket and to the receiver's socket.
C13_BothToldOfFailure ==
    [][ \A m \in Msgs :
            (/\ FailsToSave(m)
             /\ DeliveredLive(m)
             /\ sockState[msgs[m].sock] = "open"
             /\ sockState[msgs[m].rsid] = "open") =>
                \A s \in {msgs[m].sock, msgs[m].rsid} :
                    \E i \in DOMAIN emits' :
                        /\ emits'[i].ev = "message-failed"
                        /\ emits'[i].m = m
                        /\ emits'[i].to = {s}
      ]_vars

\* a create has just thrown for a message delivered live to another socket
\* than the sender's, both connected, and two failure events went out
C13_Witness ==
    \E m \in Msgs :
        /\ msgs[m].pc = "done"
        /\ m \notin Persisted
        /\ DeliveredLive(m)
        /\ msgs[m].rsid # msgs[m].sock
        /\ Len(emits) = 2
        /\ \A i \in DOMAIN emits :
            /\ emits[i].ev = "message-failed"
            /\ emits[i].m = m
            /\ emits[i].to # {}

\* the create of send m has just returned its row: the emits of the last
\* step hold the confirmation to the sender
JustSaved(m) ==
    /\ m \in Persisted
    /\ \E i \in DOMAIN emits :
        emits[i].ev = "message-confirmed" /\ emits[i].m = m

\* C14: when the create of a send returns and the receiver, who had a
\* registered socket at step 3, has none any more, the saved message is put
\* on the receiver's queue and no confirmation is emitted to the socket read
\* at step 3.
C14_LateOfflineEnqueued ==
    \A m \in Msgs :
        (/\ JustSaved(m)
         /\ msgs[m].rsid # NoSocket
         /\ userSockets[ReceiverOf(m)] = NoSocket) =>
            /\ \E i \in DOMAIN offlineMessageQueue[ReceiverOf(m)].msgs :
                    offlineMessageQueue[ReceiverOf(m)].msgs[i] = m
            /\ \A i \in DOMAIN emits :
                    emits[i].m = m => emits[i].dst = msgs[m].sock

\* C15: when the create of a send returns, 'message-confirmed' for that send
\* is emitted to the sender's socket, and, when the receiver has a connected
\* socket registered at that moment, to that socket: the one userSockets
\* holds for the receiver as the create returns.
C15_ConfirmedToCurrentSocket ==
    \A m \in Msgs : JustSaved(m) =>
        /\ \E i \in DOMAIN emits :
            /\ emits[i].ev = "message-confirmed"
            /\ emits[i].m = m
            /\ emits[i].dst = msgs[m].sock
        /\ userSockets[ReceiverOf(m)] \in Open =>
            \E i \in DOMAIN emits :
                /\ emits[i].ev = "message-confirmed"
                /\ emits[i].m = m
                /\ emits[i].dst = userSockets[ReceiverOf(m)]

\* C16: every 'message-confirmed' names one send that its sender's socket
\* made before (a send is named by its tempId, which every emit of the
\* handler reads from the event it is handling), goes to the sender's socket
\* or to the receiver's, and no socket is emitted more than one
\* 'message-confirmed' for one send.
C16_ConfirmedOncePerSend ==
    \A m \in Msgs :
        LET h == msgs[m].hist
            confirmed == Emitted(m, "message-confirmed")
        IN  /\ \A i \in confirmed :
                /\ h[i].m = m
                /\ msgs[m].pc = "done"
                /\ m \in Persisted
                /\ h[i].dst \in {msgs[m].sock, msgs[m].rsid}
            /\ \A i, j \in confirmed : h[i].dst = h[j].dst => i = j

\* the lookups of send m return in this step without both records
LookupFails(m) == msgs[m].pc = "lookup" /\ msgs'[m].pc = "done"

\* send m ended at its lookups
LookupFailedFor(m) ==
    /\ msgs[m].pc = "done"
    /\ \E i \in DOMAIN msgs[m].hist :
        /\ msgs[m].hist[i].ev = "message-error"
        /\ msgs[m].hist[i].kind \in {"User not found", "Failed to send message"}

\* C17: when the lookup of the sender's or of the receiver's record finds
\* none or throws, the handler emits one event, 'message-error' for that
\* send to the sender's socket alone, changes no queue, schedules no create
\* and writes no row; and nothing is emitted, queued or written for that
\* send afterwards.
C17_LookupFailureAborts ==
    [][ \A m \in Msgs :
            /\ LookupFails(m) =>
                /\ Len(emits') = 1
                /\ emits'[1].ev = "message-error"
                /\ emits'[1].m = m
                /\ emits'[1].dst = msgs[m].sock
                /\ emits'[1].to \subseteq {msgs[m].sock}
                /\ UNCHANGED << offlineMessageQueue, immediates, dbMessages >>
            /\ LookupFailedFor(m) =>
                /\ msgs'[m] = msgs[m]
                /\ Len(msgs[m].hist) = 1
                /\ m \notin Persisted'
                /\ \A u \in ClerkIds : \A i \in DOMAIN offlineMessageQueue'[u].msgs :
                        offlineMessageQueue'[u].msgs[i] # m
      ]_vars

\* both ways of failing have happened, one send ending on an unknown
\* receiver and one on a lookup that threw, with a second socket connected
\* that heard nothing of either
C17_Witness ==
    /\ Cardinality(Open) = 2
    /\ \E m, n \in Msgs :
        /\ LookupFailedFor(m) /\ LookupFailedFor(n)
        /\ msgs[m].hist[1].kind = "User not found"
        /\ msgs[n].hist[1].kind = "Failed to send message"
        /\ msgs[m].hist[1].to = {msgs[m].sock}

\* the syncUserFromClerk call of the 'user-online' of socket s returns in
\* this step
LookupReturns(s) == idPending[s] # "-" /\ idPending'[s] = "-"

\* C18: a 'user-online' registers its socket only when the lookup resolved
\* the userId to a record; when it did not (no such record, or the lookup
\* threw) the step emits 'sync-required' to that socket and nothing else (no
\* presence or count broadcast, no queued message) and leaves both indexes
\* and every queue as they were.
C18_UnresolvedIdentify ==
    [][ \A s \in Sockets : LookupReturns(s) =>
            IF Identifies(s)
            THEN FindByClerkId(idPending[s]) # NoRecord
            ELSE /\ Len(emits') = 1
                 /\ emits'[1].ev = "sync-required"
                 /\ emits'[1].dst = s
                 /\ emits'[1].to \subseteq {s}
                 /\ UNCHANGED << userSockets, socketUsers, offlineMessageQueue >>
      ]_vars

\* a connected socket has just been refused while a message waits in a
\* queue and another socket, registered, is connected
C18_Witness ==
    /\ Len(emits) = 1
    /\ emits[1].ev = "sync-required"
    /\ emits[1].to # {}
    /\ \E u \in ClerkIds : offlineMessageQueue[u].msgs # <<>>
    /\ \E r \in Open \ emits[1].to : socketUsers[r] # NoUser

\* C19: no two distinct userIds have userId -> socket entries that name the
\* same socket.
C19_OneUserPerSocket ==
    \A u, v \in ClerkIds :
        (userSockets[u] # NoSocket /\ userSockets[u] = userSockets[v]) => u = v

\* C20: the count carried by every 'online-users-count' and by
\* 'connection-confirmed' is the number of socket -> userId entries at the
\* end of the step that emits it.
C20_CountIsRegisteredUsers ==
    \A i \in DOMAIN emits :
        emits[i].ev \in {"online-users-count", "connection-confirmed"} =>
            emits[i].count = Size(socketUsers, NoUser)

\* C21: a 'user-online' that registers its socket emits 'user-online-status'
\* with the userId once, to every connected socket but the identifying one,
\* and 'online-users-count' once, with userSockets.size as it is after the
\* registration, to every connected socket, the identifying one among them.
C21_PresenceBroadcast ==
    last.op = "online" =>
        LET status == { i \in DOMAIN emits : emits[i].ev = "user-online-status" }
            counts == { i \in DOMAIN emits : emits[i].ev = "online-users-count" }
        IN  /\ Cardinality(status) = 1
            /\ \A i \in status :
                /\ emits[i].user = last.user
                /\ emits[i].to = Open \ {last.sock}
            /\ Cardinality(counts) = 1
            /\ \A i \in counts :
                /\ emits[i].to = Open
                /\ emits[i].count =
                      Cardinality({ u \in ClerkIds : userSockets[u] # NoSocket })

\* a connected socket has just identified as a second user while another
\* socket was connected to hear of it
C21_Witness ==
    /\ last.op = "online"
    /\ last.sock \in Open
    /\ Open \ {last.sock} # {}
    /\ \E i \in DOMAIN emits :
        emits[i].ev = "online-users-count" /\ emits[i].count = 2

\* a 'typing' or 'stop-typing' is handled in this step
Signals == nEvents' = nEvents + 1 /\ last'.op \in SignalEvents

C23_MalformedSignalDropped ==
    [][ (Signals /\ (last'.toUserId = NoUser \/ last'.fromUserId = NoUser)) =>
            /\ emits' = <<>>
            /\ UNCHANGED << sockState, userSockets, socketUsers,
                            offlineMessageQueue, idPending, msgs, immediates,
                            dbMessages >>
      ]_vars

\* a signal without fromUserId, for a user whose registered socket is
\* connected and is not the sender's, has just been dropped
C23_Witness ==
    /\ last.op \in SignalEvents
    /\ last.toUserId # NoUser
    /\ last.fromUserId = NoUser
    /\ userSockets[last.toUserId] \in Open \ {last.sock}
    /\ emits = <<>>

\* C24: in the emits of a 'user-online' that registers its socket, the
\* queued 'new-message' events come before every other event that is
\* emitted to the identifying socket.
C24_DrainBeforeOtherEvents ==
    last.op = "online" =>
        \A i, j \in DOMAIN emits :
            (/\ emits[i].ev = "new-message"
             /\ emits[j].ev # "new-message"
             /\ (emits[j].dst = last.sock \/ last.sock \in emits[j].to))
            => i < j

\* the last step emitted the optimistic 'new-message' of send m to a
\* connected socket
JustDeliveredLive(m) ==
    \E i \in DOMAIN emits :
        /\ emits[i].ev = "new-message"
        /\ emits[i].kind = "sending"
        /\ emits[i].m = m
        /\ emits[i].to # {}

\* C25: of two sends made in that order on one socket to one receiver with
\* a connected socket, the optimistic 'new-message' of the first is emitted
\* before that of the second: when that of the first is emitted, that of
\* the second has not been yet.
C25_LiveEmitsInSendOrder ==
    \A m1, m2 \in Msgs :
        (/\ m1 < m2
         /\ msgs[m1].sock = msgs[m2].sock
         /\ msgs[m1].receiverId = msgs[m2].receiverId
         /\ JustDeliveredLive(m1))
        => Emitted(m2, "new-message") = {}

\* the number of places send m holds in the queues
QueuedCopies(m) ==
    Cardinality({ p \in ClerkIds \X Msgs :
        /\ p[2] \in DOMAIN offlineMessageQueue[p[1]].msgs
        /\ offlineMessageQueue[p[1]].msgs[p[2]] = m })

\* C26: however identify handlers and create completions interleave, a
\* message that was put on a queue is either still there, once, and has not
\* been emitted, or is there no more and has been emitted as 'new-message'
\* exactly once: no drain clears a message it did not emit, none emits a
\* message it leaves behind.
C26_DrainAtomic ==
    \A m \in Msgs :
        (m \in Persisted /\ msgs[m].rsid = NoSocket) =>
            /\ QueuedCopies(m) + Cardinality(Emitted(m, "new-message")) = 1
            /\ QueuedCopies(m) = 1 =>
                \E i \in DOMAIN offlineMessageQueue[ReceiverOf(m)].msgs :
                    offlineMessageQueue[ReceiverOf(m)].msgs[i] = m

\* a create returned after the identify of the receiver had drained: the
\* message waits in the queue of a user whose socket is connected, and the
\* other message, queued before that identify, was emitted by it
C26_Witness ==
    \E m, n \in Msgs :
        /\ m \in Persisted /\ msgs[m].rsid = NoSocket
        /\ QueuedCopies(m) = 1
        /\ userSockets[ReceiverOf(m)] \in Open
        /\ n \in Persisted /\ msgs[n].rsid = NoSocket
        /\ ReceiverOf(n) = ReceiverOf(m)
        /\ QueuedCopies(n) = 0

\* the events that end a send for its sender
Terminal == {"message-confirmed", "message-failed", "message-error"}

\* C27: among the events emitted to the sender's socket for one send there
\* is at most one terminal event ('message-confirmed', 'message-failed' or
\* 'message-error'), and no event for that send is emitted to that socket
\* after it.
C27_OneTerminalOutcome ==
    \A m \in Msgs :
        LET h == msgs[m].hist
        IN  \A i \in DOMAIN h :
                (h[i].ev \in Terminal /\ h[i].dst = msgs[m].sock) =>
                    \A j \in DOMAIN h : (j > i) => h[j].dst # msgs[m].sock

\* the create of send m threw
FailedFor(m) == Emitted(m, "message-failed") # {}

\* C28: the create of a send is awaited at most once (a handler that has
\* reached the create never goes back before it, and one that has ended
\* stays ended), and a send whose create threw has no row, is on no queue
\* and is never emitted by a drain.
C28_NoRetryNoRequeue ==
    [][ \A m \in Msgs :
            /\ msgs[m].pc = "persist" => msgs'[m].pc \in {"persist", "done"}
            /\ msgs[m].pc = "done" => msgs'[m].pc = "done"
            /\ msgs'[m].pc = "persist" => msgs[m].pc \in {"deferred", "persist"}
            /\ FailedFor(m)' =>
                /\ m \notin Persisted'
                /\ QueuedCopies(m)' = 0
                /\ \A i \in DOMAIN msgs'[m].hist :
                        msgs'[m].hist[i].kind # "saved"
      ]_vars

\* the receiver of a message whose create threw while it had no socket has
\* just identified on a connected socket and was sent no 'new-message'
C28_Witness ==
    /\ last.op = "online"
    /\ last.sock \in Open
    /\ \A i \in DOMAIN emits : emits[i].ev # "new-message"
    /\ \E m \in Msgs :
        /\ FailedFor(m)
        /\ msgs[m].rsid = NoSocket
        /\ ReceiverOf(m) = last.user

\* C29: a send that has passed its lookups always reaches its create and
\* the create's return, whoever disconnects meanwhile; and when the create
\* returns a row while no socket is registered for the receiver, the row is
\* on the receiver's queue, and the events for a sender whose socket has
\* closed reach nobody.
C29_PersistenceRunsRegardless ==
    /\ \A m \in Msgs :
        (msgs[m].pc = "deferred") ~>
            (msgs[m].pc = "done" /\ (m \in Persisted \/ FailedFor(m)))
    /\ [](\A m \in Msgs :
            /\ (JustSaved(m) /\ userSockets[ReceiverOf(m)] = NoSocket) =>
                    QueuedCopies(m) = 1
            /\ \A i \in DOMAIN emits :
                    (emits[i].m = m /\ emits[i].dst \notin Open) =>
                        emits[i].to = {})

\* what the last step of the handlers may have told of an error, and whom:
\* every emit of the step goes to one of the sockets in allowed
OnlyTo(allowed) ==
    \A i \in DOMAIN emits' :
        /\ emits'[i].dst \in allowed
        /\ emits'[i].to \subseteq allowed

\* C30: a step in which a lookup finds no record or throws (in an identify
\* or in a send), or in which the create throws, changes neither index and
\* no queue, and emits only to the socket that made the request and, when
\* the create threw, to the socket read for the receiver at step 3.
C30_ErrorsStayLocal ==
    [][ /\ \A s \in Sockets :
            (LookupReturns(s) /\ ~Identifies(s)) =>
                /\ OnlyTo({s})
                /\ UNCHANGED << userSockets, socketUsers, offlineMessageQueue >>
        /\ \A m \in Msgs :
            /\ LookupFails(m) =>
                /\ OnlyTo({msgs[m].sock})
                /\ UNCHANGED << userSockets, socketUsers, offlineMessageQueue >>
            /\ FailsToSave(m) =>
                /\ OnlyTo({msgs[m].sock, msgs[m].rsid} \ {NoSocket})
                /\ UNCHANGED << userSockets, socketUsers, offlineMessageQueue >>
      ]_vars

\* a create has just thrown for a message to a receiver with no socket,
\* while a second socket was connected, and only the sender's socket was
\* told
C30_Witness ==
    /\ Cardinality(Open) = 2
    /\ Len(emits) = 1
    /\ emits[1].ev = "message-failed"
    /\ msgs[emits[1].m].rsid = NoSocket
    /\ emits[1].to = {msgs[emits[1].m].sock}

\* C31: whenever socketUsers maps socket s to user u, userSockets maps u to
\* s.
C31_ReverseHasForward ==
    \A s \in Sockets :
        socketUsers[s] # NoUser => userSockets[socketUsers[s]] = s

\* a socket holds a reverse entry for one user while a forward entry of
\* another user still names it, after a second socket has disconnected
C31_Witness ==
    \E s, r \in Sockets : \E v \in ClerkIds :
        /\ socketUsers[s] # NoUser
        /\ v # socketUsers[s]
        /\ userSockets[v] = s
        /\ r # s
        /\ sockState[r] = "closed"

\* socket s disconnects in this step
Disconnects(s) == sockState[s] = "open" /\ sockState'[s] = "closed"

\* C32: the disconnect of a socket A leaves the registration of every user
\* on another socket B as it was, and when A holds no identity (as after
\* its user identified on B, which deleted A's reverse entry) it emits
\* nothing, neither 'user-offline-status' nor 'online-users-count'.
C32_OldSocketLeavesQuietly ==
    [][ \A a \in Sockets : Disconnects(a) =>
            /\ \A b \in Sockets \ {a} : \A u \in ClerkIds :
                    (userSockets[u] = b /\ socketUsers[b] = u) =>
                        (userSockets'[u] = b /\ socketUsers'[b] = u)
            /\ socketUsers[a] = NoUser =>
                    /\ emits' = <<>>
                    /\ UNCHANGED << userSockets, socketUsers >>
      ]_vars

\* a socket that holds no identity has disconnected and nothing was
\* emitted, while a user is registered, in both indexes, on another socket
\* that is connected
C32_Witness ==
    \E a, b \in Sockets : \E u \in ClerkIds :
        /\ a # b
        /\ sockState[a] = "closed"
        /\ socketUsers[a] = NoUser
        /\ \A v \in ClerkIds : userSockets[v] # a
        /\ sockState[b] = "open"
        /\ userSockets[u] = b /\ socketUsers[b] = u
        /\ emits = <<>>
        /\ last = Idle
        /\ nEvents = MaxEvents

\* the periodic sweep runs in this step and removes something
ReaperTicks == last'.op = "reaper"

\* C33: a sweep never removes the registration of a user whose registered
\* socket is connected: every userId -> socket entry that names a connected
\* socket before the sweep is the same entry after it.
C33_SweepKeepsLiveUsers ==
    [][ ReaperTicks =>
            \A u \in ClerkIds :
                userSockets[u] \in Open => userSockets'[u] = userSockets[u]
      ]_vars

\* a sweep has just removed a user while another user is registered, in both
\* indexes, on a connected socket
C33_Witness ==
    /\ last.op = "reaper"
    /\ last.removed # {}
    /\ \E u \in ClerkIds \ last.removed :
            /\ userSockets[u] \in Open
            /\ socketUsers[userSockets[u]] = u

\* C34: a 'user-online' that registers a socket for user u removes from
\* socketUsers only an entry that maps to u: the entry of another connected
\* socket that is identified as a different user is left as it is.
C34_EvictsOnlySameUser ==
    [][ \A s \in Sockets : Identifies(s) =>
            \A c \in Open \ {s} :
                (socketUsers[c] # NoUser /\ socketUsers[c] # last'.user) =>
                    socketUsers'[c] = socketUsers[c]
      ]_vars

\* C35: every 'new-message', and every 'message-confirmed' or
\* 'message-failed' that goes to another socket than the sender's, that
\* reaches a connected socket reaches one that socketUsers maps, at that
\* moment, to the user the message is addressed to.
C35_ReceiverEmitsToReceiver ==
    \A i \in DOMAIN emits :
        (/\ emits[i].ev \in {"new-message", "message-confirmed", "message-failed"}
         /\ emits[i].to # {}
         /\ (emits[i].ev = "new-message" \/ emits[i].dst # msgs[emits[i].m].sock))
            => socketUsers[emits[i].dst] = ReceiverOf(emits[i].m)

\* C36: when the create of a send returns its row, the message either was
\* emitted as 'new-message' to a socket that was connected at that emit, or
\* is in the receiver's offline queue.
C36_SavedReachedOrQueued ==
    \A m \in Msgs : JustSaved(m) =>
        \/ \E i \in Emitted(m, "new-message") : msgs[m].hist[i].to # {}
        \/ \E i \in DOMAIN offlineMessageQueue[ReceiverOf(m)].msgs :
                offlineMessageQueue[ReceiverOf(m)].msgs[i] = m

\* send m was received on a socket that socketUsers mapped to no user
Unauthenticated(m) == msgs[m].pc # "idle" /\ msgs[m].senderId = NoUser

\* C37: a send-message received on a socket with no registered identity is
\* answered with one 'message-error' that names the send and goes to that
\* socket alone; its handler never awaits a lookup, and the message is
\* neither emitted, queued nor persisted.
C37_UnauthenticatedRefused ==
    \A m \in Msgs : Unauthenticated(m) =>
        /\ msgs[m].pc = "done"
        /\ Len(msgs[m].hist) = 1
        /\ msgs[m].hist[1].ev = "message-error"
        /\ msgs[m].hist[1].kind = "Not authenticated"
        /\ msgs[m].hist[1].m = m
        /\ msgs[m].hist[1].to = {msgs[m].sock}
        /\ ~InQueue(m)
        /\ m \notin Persisted

\* a connected socket with no registered identity has sent, while another
\* connected socket is registered
C37_Witness ==
    \E m \in Msgs : \E r \in Open \ {msgs[m].sock} :
        /\ Unauthenticated(m)
        /\ socketUsers[r] # NoUser
        /\ msgs[m].sock \in Open

\* C38: the sender that every 'new-message' of a send carries, and the
\* senderId of the row created for it, are those of the user that socketUsers
\* held for the sending socket when the send-message was received, whatever
\* the payload says and whoever the socket is registered as later.
C38_SenderIsRegisteredIdentity ==
    \A m \in Msgs :
        /\ \A i \in Emitted(m, "new-message") :
                msgs[m].hist[i].user = msgs[m].senderId
        /\ \A r \in dbMessages :
                r.id = m => r.senderId = FindByClerkId(msgs[m].senderId).id

\* a send was emitted as 'new-message' and saved, and its socket is by now
\* registered as another user than the one it sent as
C38_Witness ==
    \E m \in Persisted :
        /\ Emitted(m, "new-message") # {}
        /\ socketUsers[msgs[m].sock] \notin {NoUser, msgs[m].senderId}

\* C39: every 'user-typing' or 'user-stop-typing' that reaches a socket
\* carries as fromUserId the user that socketUsers maps the signalling socket
\* to.
C39_SignalFromRegisteredIdentity ==
    last.op \in SignalEvents =>
        \A i \in DOMAIN emits :
            emits[i].to # {} => emits[i].user = socketUsers[last.sock]

\* a 'typing', 'stop-typing' or 'ping' event is handled in this step
Stateless == nEvents' = nEvents + 1 /\ last'.op \in SignalEvents \cup {"ping"}

\* C40: the handlers of 'typing', 'stop-typing' and 'ping' change neither
\* index nor any offline queue, whatever the payload and whether or not the
\* target has a socket; 'ping' emits 'pong' once, to the socket that sent it
\* and to no other.
C40_StatelessHandlers ==
    [][ Stateless =>
            /\ UNCHANGED << userSockets, socketUsers, offlineMessageQueue >>
            /\ last'.op = "ping" =>
                    /\ Len(emits') = 1
                    /\ emits'[1].ev = "pong"
                    /\ emits'[1].to = {last'.sock}
      ]_vars

\* a ping has just been answered while a queue holds a message
C40_Witness ==
    /\ last.op = "ping"
    /\ emits # <<>>
    /\ \E u \in ClerkIds : offlineMessageQueue[u].msgs # <<>>

====
